---- MODULE Spec2Model ----
(***************************************************************************)
(* Model of the paper-review agent: review_agent.py (Source Reader, PDF    *)
(* Extractor, Prompt Builder, Model Caller, CLI main) and server.py (the   *)
(* POST /review handler).                                                  *)
(*                                                                         *)
(* A Python str is a sequence of one-character strings.  Python's None is  *)
(* the one-element sequence None, whose element is no character.  Fixed    *)
(* literal text of the program that contains no brace is kept as one       *)
(* multi-character element.                                                *)
(***************************************************************************)
EXTENDS Integers, Sequences, FiniteSets, TLC

VARIABLES
    fe,            \* the front end of the current run: "none", "cli", "http", "builder"
    pc,            \* where the run stands
    args,          \* the parsed command line, or the submitted form
    raw_text,      \* the paper text as resolved, before strip(); None before that
    paper_text,    \* the stripped paper text
    paper_source,  \* the label of the paper's source (server)
    messages,      \* the prompt built by build_messages
    review,        \* what call_model returned; None before that
    readers,       \* history: the readers invoked in this run, in order
    apiCalls,      \* history: the chat-completion invocations of this run
    result,        \* the exit code of the process, or the HTTP answer
    outfile,       \* the content of the --output file; None while it does not exist
    stdout         \* what this run printed

vars == <<fe, pc, args, raw_text, paper_text, paper_source, messages, review,
          readers, apiCalls, result, outfile, stdout>>

(***************************************************************************)
(* Python values and str methods                                           *)
(***************************************************************************)
None == <<"None">>

Fail == <<"raise">>

\* Faulty variant: only None counts as missing ("is None" in place of "not").
TruthyNotNone(x) == x # None

Truthy(x) == x # None /\ x # <<>>

OrElse(x, d) == IF Truthy(x) THEN x ELSE d

UpperLetters == <<"A","B","C","D","E","F","G","H","I","J","K","L","M",
                  "N","O","P","Q","R","S","T","U","V","W","X","Y","Z">>

LowerLetters == <<"a","b","c","d","e","f","g","h","i","j","k","l","m",
                  "n","o","p","q","r","s","t","u","v","w","x","y","z">>

Digits == {"0","1","2","3","4","5","6","7","8","9"}

Range(s) == {s[i] : i \in DOMAIN s}

LowerChar(c) ==
    IF c \in Range(UpperLetters)
    THEN LowerLetters[CHOOSE i \in DOMAIN UpperLetters : UpperLetters[i] = c]
    ELSE c

Lower(s) == [i \in DOMAIN s |-> LowerChar(s[i])]

StartsWith(s, p) == Len(s) >= Len(p) /\ SubSeq(s, 1, Len(p)) = p

EndsWith(s, p) == Len(s) >= Len(p) /\ SubSeq(s, Len(s) - Len(p) + 1, Len(s)) = p

Contains(s, p) ==
    \E i \in 0..(Len(s) - Len(p)) : SubSeq(s, i + 1, i + Len(p)) = p

Find(s, c) ==
    IF c \in Range(s) THEN CHOOSE i \in DOMAIN s : s[i] = c /\ \A j \in 1..(i-1) : s[j] # c
    ELSE 0

Whitespace == {" ", "\t", "\n", "\r", "\f"}

RECURSIVE LStrip(_)
LStrip(s) == IF s # <<>> /\ Head(s) \in Whitespace THEN LStrip(Tail(s)) ELSE s

RECURSIVE RStrip(_)
RStrip(s) ==
    IF s # <<>> /\ s[Len(s)] \in Whitespace THEN RStrip(SubSeq(s, 1, Len(s) - 1)) ELSE s

Strip(s) == RStrip(LStrip(s))

RECURSIVE Join(_, _)
Join(parts, sep) ==
    IF parts = <<>> THEN <<>>
    ELSE IF Len(parts) = 1 THEN parts[1]
    ELSE parts[1] \o sep \o Join(Tail(parts), sep)

DotPdf == <<".","p","d","f">>

PdfWord == <<"p","d","f">>

(***************************************************************************)
(* Prompt Builder: build_messages                                          *)
(***************************************************************************)
DomainField == <<"{","d","o","m","a","i","n","}">>

PaperField == <<"{","p","a","p","e","r","}">>

\* The Chinese instruction text is written here in ASCII transliteration.
ZhTemplate ==
    <<"[zh] Qing yong Zhongwen geichu shengao yijian, yuqi yange dan gongzheng, lingyu wei ">>
    \o DomainField \o
    <<"[zh].\n",
      "[zh] Shuchu caiyong yixia chun wenben moban (buyao shiyong JSON, ye buyao yong daimakuai):\n",
      "Summary: ...\n",
      "Strengths:\n- ...\n",
      "Weaknesses:\n- ...\n",
      "Questions:\n- ...\n",
      "Decision ([zh] yuedu jianyi: jingdu / kexuan liulan / ke hulue): ...\n",
      "\n[zh] Lunwen neirong:\n">>
    \o PaperField

EnTemplate ==
    <<"Provide the review in English, with a strict but fair tone, domain: ">>
    \o DomainField \o
    <<".\n",
      "Use this plain-text template (no JSON, no code fences):\n",
      "Summary: ...\n",
      "Strengths:\n- ...\n",
      "Weaknesses:\n- ...\n",
      "Questions:\n- ...\n",
      "Decision (Reading suggestion: Must Read / Skim Optional / Skip): ...\n",
      "\nPAPER:\n">>
    \o PaperField

\* str.format: one left-to-right pass over the template; each {name} is
\* replaced by the keyword argument of that name, and the inserted text is
\* not scanned again.
\* Faulty variant: chained str.replace, which also rewrites what was just inserted.
RECURSIVE ReplaceAll(_, _, _)
ReplaceAll(s, old, new) ==
    IF Len(s) < Len(old) THEN s
    ELSE IF SubSeq(s, 1, Len(old)) = old
    THEN new \o ReplaceAll(SubSeq(s, Len(old) + 1, Len(s)), old, new)
    ELSE <<Head(s)>> \o ReplaceAll(Tail(s), old, new)

FormatByReplace(template, domain, paper) ==
    ReplaceAll(ReplaceAll(template, <<"{","p","a","p","e","r","}">>, paper),
               <<"{","d","o","m","a","i","n","}">>, domain)

RECURSIVE Format(_, _, _)
Format(template, domain, paper) ==
    IF template = <<>> THEN <<>>
    ELSE IF Head(template) = "{"
    THEN LET close == Find(template, "}")
             name  == SubSeq(template, 2, close - 1)
             value == IF name = SubSeq(DomainField, 2, Len(DomainField) - 1)
                      THEN domain ELSE paper
         IN  value \o Format(SubSeq(template, close + 1, Len(template)), domain, paper)
    ELSE <<Head(template)>> \o Format(Tail(template), domain, paper)

\* Faulty variant: the language is compared with "zh" itself.
SelectTemplateExact(language) ==
    IF Lower(language) = <<"z","h">> THEN ZhTemplate ELSE EnTemplate

SelectTemplate(language) ==
    LET lang == Lower(language)
    IN  IF StartsWith(lang, <<"z","h">>) THEN ZhTemplate ELSE EnTemplate

SystemMsg(domain, tone) ==
    <<"You are a seasoned reviewer in ">> \o domain \o <<".", " ">>
    \o <<"Maintain a strict, skeptical, concise tone: ">> \o tone \o <<".", " ">>
    \o <<"Respond using the requested language.">>

build_messages(domain, tone, paper, language) ==
    << [role |-> "system", content |-> SystemMsg(domain, tone)],
       [role |-> "user",   content |-> Format(SelectTemplate(language), domain, paper)] >>

(***************************************************************************)
(* Bounds and input values                                                 *)
(***************************************************************************)
MaxPages == 2

\* What page.extract_text() may give for one page.
PageTexts == {None, <<"a">>}

RECURSIVE SeqsUpTo(_, _)
SeqsUpTo(S, n) ==
    IF n = 0 THEN {<<>>}
    ELSE LET shorter == SeqsUpTo(S, n - 1)
         IN  shorter \cup {Append(q, x) : q \in {r \in shorter : Len(r) = n - 1}, x \in S}

PdfDocs == SeqsUpTo(PageTexts, MaxPages)

\* A byte that is not valid UTF-8, and what a decoder puts in its place.
BadByte == "\\xff"

ReplacementChar == "\\ufffd"

RawBytes == {<<>>, <<" ">>, <<"a">>, <<" ", "a", "\n">>, <<BadByte>>, <<"\n", BadByte, "a">>}

\* A byte sequence is either a PDF container holding pages or raw bytes.
Payloads ==
    {[kind |-> "raw", bytes |-> b, pages |-> <<>>] : b \in RawBytes}
    \cup {[kind |-> "pdf", bytes |-> <<"%","P","D","F">>, pages |-> d] : d \in PdfDocs}

EmptyBytes == [kind |-> "raw", bytes |-> <<>>, pages |-> <<>>]

Missing == [kind |-> "missing", bytes |-> <<>>, pages |-> <<>>]

Texts == {<<>>, <<" ">>, <<"a">>, <<" ", "a", "\n">>}

TextHtml == <<"t","e","x","t","/","h","t","m","l">>

ApplicationPdfUpper == <<"A","p","p","l","i","c","a","t","i","o","n","/","P","D","F">>

Dash == <<"-">>

UrlPdf == <<"h","t","t","p",":","/","/","h","/","a",".","p","d","f">>

UrlPdfQuery == UrlPdf \o <<"?","q">>

UrlPdfFragment == <<"h","t","t","p","s",":","/","/","h","/","a",".","P","D","F","#","f">>

UrlPlain == <<"h","t","t","p","s",":","/","/","h","/","a">>

UrlUpperScheme == <<"H","T","T","P",":","/","/","h","/","a",".","p","d","f">>

UrlQueryPdf == <<"h","t","t","p",":","/","/","h","/","a","?","q","=",".","p","d","f">>

FtpPdf == <<"f","t","p",":","/","/","h","/","a",".","P","d","f">>

LocalPdf == <<"a",".","P","D","F">>

LocalText == <<"a",".","t","x","t">>

LocalPath == <<"/","e","t","c","/","p">>

Sources == {Dash, UrlPdf, UrlPdfQuery, UrlPdfFragment, UrlPlain, UrlUpperScheme,
            UrlQueryPdf, FtpPdf, LocalPdf, LocalText, LocalPath}

(***************************************************************************)
(* PDF Extractor                                                           *)
(***************************************************************************)
\* [page.extract_text() or "" for page in reader.pages], joined by "\n"
ExtractPages(pages) == Join([i \in DOMAIN pages |-> OrElse(pages[i], <<>>)], <<"\n">>)

\* PdfReader raises on bytes that are no PDF container.
_read_pdf_bytes(data) == IF data.kind = "pdf" THEN ExtractPages(data.pages) ELSE Fail

read_pdf_bytes(data) == _read_pdf_bytes(data)

_read_pdf(file) == IF file.kind = "pdf" THEN ExtractPages(file.pages) ELSE Fail

\* open(path, "r", encoding="utf-8").read(): strict decoding
_read_text_file(file) ==
    IF file.kind = "missing" \/ BadByte \in Range(file.bytes) THEN Fail ELSE file.bytes

\* bytes.decode("utf-8", errors="ignore")
DecodeIgnore(data) == SelectSeq(data.bytes, LAMBDA b : b # BadByte)

\* requests' resp.text: undecodable bytes are replaced
DecodeReplace(data) ==
    [i \in DOMAIN data.bytes |->
        IF data.bytes[i] = BadByte THEN ReplacementChar ELSE data.bytes[i]]

(***************************************************************************)
(* urllib.parse.urlparse, as far as its scheme and path                    *)
(***************************************************************************)
SchemeChars == Range(UpperLetters) \cup Range(LowerLetters) \cup Digits \cup {"+", "-", "."}

UrlClean(url) == SelectSeq(LStrip(url), LAMBDA c : c \notin {"\t", "\r", "\n"})

UrlHasScheme(url) ==
    LET u == UrlClean(url)
        i == Find(u, ":")
    IN  /\ i > 1
        /\ u[1] \in Range(UpperLetters) \cup Range(LowerLetters)
        /\ \A j \in 1..(i - 1) : u[j] \in SchemeChars

UrlScheme(url) ==
    LET u == UrlClean(url)
    IN  IF UrlHasScheme(url) THEN Lower(SubSeq(u, 1, Find(u, ":") - 1)) ELSE <<>>

Http == <<"h","t","t","p">>

Https == <<"h","t","t","p","s">>

(***************************************************************************)
(* Source Reader                                                           *)
(***************************************************************************)
Responses ==
    {[ok |-> FALSE, content_type |-> None, body |-> EmptyBytes]}
    \cup [ok : {TRUE},
          content_type : {None, TextHtml, ApplicationPdfUpper},
          body : Payloads]

\* Faulty variant: the ".pdf" suffix is tested before the URL scheme.
ReaderBranchSuffixFirst(source) ==
    IF source = Dash THEN "stdin"
    ELSE IF EndsWith(Lower(source), DotPdf) THEN "pdf_file"
    ELSE IF UrlScheme(source) \in {Http, Https} THEN "url"
    ELSE "text_file"

\* Which reader read_paper hands the source to.
ReaderBranch(source) ==
    IF source = Dash THEN "stdin"
    ELSE IF UrlScheme(source) \in {Http, Https} THEN "url"
    ELSE IF EndsWith(Lower(source), DotPdf) THEN "pdf_file"
    ELSE "text_file"

\* What the outside world may answer to the reader of that branch.
IoFor(branch) ==
    CASE branch = "stdin" -> Texts
      [] branch = "url" -> Responses
      [] OTHER -> Payloads \cup {Missing}

UrlIsPdf(url, resp) ==
    LET content_type == Lower(IF resp.content_type = None THEN <<>> ELSE resp.content_type)
    IN  Contains(content_type, PdfWord) \/ EndsWith(Lower(url), DotPdf)

\* requests.get, raise_for_status, then the PDF-or-text decision
_read_from_url(url, resp) ==
    IF ~resp.ok THEN Fail
    ELSE IF UrlIsPdf(url, resp) THEN _read_pdf_bytes(resp.body)
    ELSE DecodeReplace(resp.body)

ReaderEntry(op, arg, input, ok, ret) ==
    [op |-> op, arg |-> arg, input |-> input, ok |-> ok, ret |-> ret]

UrlLog(url, resp) ==
    <<ReaderEntry("url", url, resp, resp.ok, _read_from_url(url, resp))>>
    \o IF resp.ok /\ UrlIsPdf(url, resp)
       THEN <<ReaderEntry("pdf_bytes", url, resp, TRUE, _read_pdf_bytes(resp.body))>>
       ELSE <<>>

\* read_paper(source) with io the answer of the outside world: the returned
\* text (or Fail) and the readers invoked, in order.
read_paper(source, io) ==
    LET branch == ReaderBranch(source)
        one(ret) == [ret |-> ret, log |-> <<ReaderEntry(branch, source, io, ret # Fail, ret)>>]
    IN  CASE branch = "stdin" -> one(io)
          [] branch = "url" -> [ret |-> _read_from_url(source, io), log |-> UrlLog(source, io)]
          [] branch = "pdf_file" -> one(_read_pdf(io))
          [] OTHER -> one(_read_text_file(io))

(***************************************************************************)
(* Model Caller                                                            *)
(***************************************************************************)
ReviewText == <<"r">>

\* What client.chat.completions.create may do: raise, or answer with a list
\* of choices, each holding its message content.
ModelResponses ==
    {[ok |-> FALSE, choices |-> <<>>],
     [ok |-> TRUE, choices |-> <<>>],
     [ok |-> TRUE, choices |-> <<None>>],
     [ok |-> TRUE, choices |-> << <<>> >>],
     [ok |-> TRUE, choices |-> <<ReviewText>>]}

\* Faulty variant: the content is returned as it is, None included.
call_model_raw(resp) ==
    IF ~resp.ok \/ resp.choices = <<>> THEN Fail ELSE resp.choices[1]

\* Faulty variant: a failed invocation is swallowed and gives an empty review.
call_model_swallow(resp) ==
    IF ~resp.ok \/ resp.choices = <<>> THEN <<>> ELSE OrElse(resp.choices[1], <<>>)

\* response.choices[0].message.content or ""
call_model(resp) ==
    IF ~resp.ok \/ resp.choices = <<>> THEN Fail ELSE OrElse(resp.choices[1], <<>>)

ApiCall(model, msgs, resp) == [model |-> model, messages |-> msgs, resp |-> resp]

\* OpenAI(api_key=..., base_url=...) raises when it is given no key.
NewClient(api_key) == IF api_key = None THEN Fail ELSE <<"client">> \o api_key

(***************************************************************************)
(* Front-end inputs                                                        *)
(***************************************************************************)
Key == <<"k">>

OutPath == <<"o",".","t","x","t">>

DefaultTone == <<"mean reviewer who is strict but fair">>

DefaultModel == <<"gpt-4o-mini">>

CV == <<"C","V">>

ML == <<"M","L">>

En == <<"e","n">>

Zh == <<"z","h">>

CliArgs ==
    [paper : Sources, domain : {CV}, tone : {DefaultTone}, language : {En},
     model : {DefaultModel}, api_key : {None, Key}, output : {None, <<>>, OutPath}]

DraftPdf == <<"d","r","a","f","t",".","P","D","F">>

Uploads ==
    [filename : {<<>>, DraftPdf, LocalText},
     content_type : {None, ApplicationPdfUpper},
     data : Payloads]

\* file is None: the form carries no upload.
NoFile == [filename |-> None, content_type |-> None, data |-> Missing]

Forms ==
    [domain : {ML}, language : {Zh}, model : {DefaultModel}, base_url : {None},
     api_key : {None, <<>>, Key}, tone : {DefaultTone},
     paper_url : {None, <<>>, Dash, LocalPath, LocalPdf, UrlPlain},
     file : {NoFile} \cup Uploads]

NoMeta ==
    [domain |-> None, language |-> None, model |-> None, base_url |-> None,
     paper_source |-> None, text_chars |-> -1]

NoResult == [code |-> -1, detail |-> "", review_text |-> None, meta |-> NoMeta]

Exit(code, detail) == [code |-> code, detail |-> detail, review_text |-> None, meta |-> NoMeta]

HTTPException(status_code, detail) ==
    [code |-> status_code, detail |-> detail, review_text |-> None, meta |-> NoMeta]

\* An exception no handler catches: the framework answers 500 with no body of ours.
Unhandled ==
    [code |-> 500, detail |-> "Internal Server Error", review_text |-> None, meta |-> NoMeta]

(***************************************************************************)
(* The state machine                                                       *)
(***************************************************************************)
Init ==
    /\ fe = "none"
    /\ pc = "idle"
    /\ args = <<>>
    /\ raw_text = None
    /\ paper_text = <<>>
    /\ paper_source = <<>>
    /\ messages = <<>>
    /\ review = None
    /\ readers = <<>>
    /\ apiCalls = <<>>
    /\ result = NoResult
    /\ outfile = None
    /\ stdout = <<>>

\* main, line 174: parse_args
CliStart ==
    /\ pc = "idle"
    /\ \E a \in CliArgs : args' = a
    /\ fe' = "cli"
    /\ pc' = "read"
    /\ UNCHANGED <<raw_text, paper_text, paper_source, messages, review, readers,
                   apiCalls, result, outfile, stdout>>

\* main, lines 175-182: read_paper, strip, the empty check, the client, build_messages
CliRead ==
    /\ fe = "cli"
    /\ pc = "read"
    /\ \E io \in IoFor(ReaderBranch(args.paper)) :
         LET r == read_paper(args.paper, io)
             text == Strip(r.ret)
         IN  /\ readers' = readers \o r.log
             /\ raw_text' = IF r.ret = Fail THEN None ELSE r.ret
             /\ IF r.ret = Fail
                THEN /\ result' = Exit(1, "exception")
                     /\ pc' = "done"
                     /\ UNCHANGED <<paper_text, messages>>
                ELSE IF ~Truthy(text)
                THEN /\ paper_text' = text
                     /\ result' = Exit(1, "Paper text is empty; provide a text file or stdin input.")
                     /\ pc' = "done"
                     /\ UNCHANGED messages
                ELSE IF NewClient(args.api_key) = Fail
                THEN /\ paper_text' = text
                     /\ result' = Exit(1, "exception")
                     /\ pc' = "done"
                     /\ UNCHANGED messages
                ELSE /\ paper_text' = text
                     /\ messages' = build_messages(args.domain, args.tone, text, args.language)
                     /\ pc' = "call"
                     /\ UNCHANGED result
    /\ UNCHANGED <<fe, args, paper_source, review, apiCalls, outfile, stdout>>

\* main, line 183: call_model
CliCall ==
    /\ fe = "cli"
    /\ pc = "call"
    /\ \E resp \in ModelResponses :
         /\ apiCalls' = Append(apiCalls, ApiCall(args.model, messages, resp))
         /\ IF call_model(resp) = Fail
            THEN /\ result' = Exit(1, "exception")
                 /\ pc' = "done"
                 /\ UNCHANGED review
            ELSE /\ review' = call_model(resp)
                 /\ pc' = "write"
                 /\ UNCHANGED result
    /\ UNCHANGED <<fe, args, raw_text, paper_text, paper_source, messages, readers,
                   outfile, stdout>>

\* main, lines 185-190: the review goes to the output file or to standard output
CliWrite ==
    /\ fe = "cli"
    /\ pc = "write"
    /\ IF Truthy(args.output)
       THEN \E io \in {"ok", "open_fails", "write_fails"} :
              CASE io = "ok" ->
                     /\ outfile' = review
                     /\ stdout' = Append(stdout, <<"Saved review to ">> \o args.output)
                     /\ result' = Exit(0, "")
                [] io = "open_fails" ->
                     /\ result' = Exit(1, "exception")
                     /\ UNCHANGED <<outfile, stdout>>
                [] OTHER ->
                     /\ outfile' = <<>>
                     /\ result' = Exit(1, "exception")
                     /\ UNCHANGED stdout
       ELSE /\ stdout' = Append(stdout, review)
            /\ result' = Exit(0, "")
            /\ UNCHANGED outfile
    /\ pc' = "done"
    /\ UNCHANGED <<fe, args, raw_text, paper_text, paper_source, messages, review,
                   readers, apiCalls>>

\* Faulty variant: an empty api_key passes the first check.
FormCheckKeyNotNone(form) ==
    IF form.api_key = None THEN HTTPException(400, "api_key is missing")
    ELSE IF ~(form.file # NoFile \/ Truthy(form.paper_url))
    THEN HTTPException(400, "a file or a paper URL is needed")
    ELSE NoResult

\* review, lines 55-58: the checks made before anything is read; NoResult
\* when the form passes them.
FormCheck(form) ==
    IF ~Truthy(form.api_key) THEN HTTPException(400, "api_key is missing")
    ELSE IF ~(form.file # NoFile \/ Truthy(form.paper_url))
    THEN HTTPException(400, "a file or a paper URL is needed")
    ELSE NoResult

\* review, lines 44-58: the form arrives and is checked
HttpStart ==
    /\ pc = "idle"
    /\ \E form \in Forms :
         /\ args' = form
         /\ result' = FormCheck(form)
         /\ pc' = IF FormCheck(form) = NoResult THEN "read" ELSE "done"
    /\ fe' = "http"
    /\ UNCHANGED <<raw_text, paper_text, paper_source, messages, review, readers,
                   apiCalls, outfile, stdout>>

UploadIsPdf(file) ==
    LET filename == OrElse(file.filename, <<>>)
        content_type == Lower(OrElse(file.content_type, <<>>))
    IN  EndsWith(Lower(filename), DotPdf) \/ Contains(content_type, PdfWord)

\* review, lines 63-73: the text of an uploaded file
UploadText(file) ==
    IF UploadIsPdf(file) THEN read_pdf_bytes(file.data) ELSE DecodeIgnore(file.data)

UploadLog(file) ==
    <<ReaderEntry("upload", file.filename, file, TRUE, file.data.bytes)>>
    \o IF file.data # EmptyBytes /\ UploadIsPdf(file)
       THEN <<ReaderEntry("pdf_bytes", file.filename, file, TRUE, read_pdf_bytes(file.data))>>
       ELSE <<>>

\* review, lines 60-76: the paper text and its source label, from the upload
\* when there is one, else from read_paper(paper_url); empty is TRUE when the
\* upload holds no bytes.
HttpPaper(form, io) ==
    IF form.file # NoFile
    THEN [empty |-> form.file.data = EmptyBytes,
          ret |-> IF form.file.data = EmptyBytes THEN <<>> ELSE UploadText(form.file),
          source |-> OrElse(form.file.filename, <<"uploaded-file">>),
          log |-> UploadLog(form.file)]
    ELSE [empty |-> FALSE,
          ret |-> read_paper(form.paper_url, io).ret,
          source |-> form.paper_url,
          log |-> read_paper(form.paper_url, io).log]

HttpIo(form) ==
    IF form.file # NoFile THEN {None} ELSE IoFor(ReaderBranch(form.paper_url))

\* review, lines 60-83: read the paper, strip, the empty check, the client, build_messages
HttpRead ==
    /\ fe = "http"
    /\ pc = "read"
    /\ \E io \in HttpIo(args) :
         LET p == HttpPaper(args, io)
             text == Strip(p.ret)
         IN  /\ readers' = readers \o p.log
             /\ raw_text' = IF p.empty \/ p.ret = Fail THEN None ELSE p.ret
             /\ IF p.empty
                THEN /\ result' = HTTPException(400, "the uploaded file is empty")
                     /\ pc' = "done"
                     /\ UNCHANGED <<paper_text, paper_source, messages>>
                ELSE IF p.ret = Fail
                THEN /\ result' = Unhandled
                     /\ pc' = "done"
                     /\ UNCHANGED <<paper_text, paper_source, messages>>
                ELSE IF ~Truthy(text)
                THEN /\ paper_text' = text
                     /\ paper_source' = p.source
                     /\ result' = HTTPException(400, "the paper text is empty")
                     /\ pc' = "done"
                     /\ UNCHANGED messages
                ELSE /\ paper_text' = text
                     /\ paper_source' = p.source
                     /\ messages' = build_messages(args.domain, args.tone, text, args.language)
                     /\ pc' = "call"
                     /\ UNCHANGED result
    /\ UNCHANGED <<fe, args, review, apiCalls, outfile, stdout>>

\* Faulty variant: the URL of the form labels the source whenever there is one.
ResponseUrlLabel(form, review_text, source, text) ==
    [code |-> 200, detail |-> "", review_text |-> review_text,
     meta |-> [domain |-> form.domain, language |-> form.language, model |-> form.model,
               base_url |-> form.base_url,
               paper_source |-> IF Truthy(form.paper_url) THEN form.paper_url ELSE source,
               text_chars |-> Len(text)]]

\* review, lines 86-96
Response(form, review_text, source, text) ==
    [code |-> 200, detail |-> "", review_text |-> review_text,
     meta |-> [domain |-> form.domain, language |-> form.language, model |-> form.model,
               base_url |-> form.base_url, paper_source |-> source,
               text_chars |-> Len(text)]]

\* review, lines 84-96: call_model and the JSON answer
HttpCall ==
    /\ fe = "http"
    /\ pc = "call"
    /\ \E resp \in ModelResponses :
         /\ apiCalls' = Append(apiCalls, ApiCall(args.model, messages, resp))
         /\ IF call_model(resp) = Fail
            THEN /\ result' = Unhandled
                 /\ UNCHANGED review
            ELSE /\ review' = call_model(resp)
                 /\ result' = Response(args, call_model(resp), paper_source, paper_text)
    /\ pc' = "done"
    /\ UNCHANGED <<fe, args, raw_text, paper_text, paper_source, messages, readers,
                   outfile, stdout>>

\* The process has exited, or the request is answered: the next run starts
\* with nothing left of this one but the file system.
NextRun ==
    /\ pc = "done"
    /\ fe' = "none"
    /\ pc' = "idle"
    /\ args' = <<>>
    /\ raw_text' = None
    /\ paper_text' = <<>>
    /\ paper_source' = <<>>
    /\ messages' = <<>>
    /\ review' = None
    /\ readers' = <<>>
    /\ apiCalls' = <<>>
    /\ result' = NoResult
    /\ stdout' = <<>>
    /\ UNCHANGED outfile

Next == CliStart \/ CliRead \/ CliCall \/ CliWrite \/ HttpStart \/ HttpRead \/ HttpCall \/ NextRun

Spec == Init /\ [][Next]_vars

(***************************************************************************)
(* Properties of the two front ends                                        *)
(***************************************************************************)
Running == fe \in {"cli", "http"}

AllWhitespace(t) == \A i \in DOMAIN t : t[i] \in Whitespace

Rejected == IF fe = "cli" THEN result.code # 0 ELSE result.code = 400

PdfExtracted == \E i \in DOMAIN readers : readers[i].op = "pdf_bytes"

\* C1: the prompt is built and the model is called only for a paper text that
\* is non-empty after trimming; a run whose resolved text is empty or all
\* whitespace ends rejected (CLI: non-zero exit, HTTP: 400) with no prompt
\* built and no model call made.
C1_NoModelCallOnEmptyText ==
    Running =>
        /\ (messages # <<>> \/ apiCalls # <<>>) =>
               /\ raw_text # None
               /\ ~AllWhitespace(raw_text)
               /\ paper_text # <<>>
               /\ paper_text[1] \notin Whitespace
               /\ paper_text[Len(paper_text)] \notin Whitespace
               /\ Contains(raw_text, paper_text)
        /\ (raw_text # None /\ AllWhitespace(raw_text)) =>
               /\ pc = "done"
               /\ Rejected
               /\ messages = <<>>
               /\ apiCalls = <<>>

\* An uploaded PDF whose pages all yield no text is answered 400.
C1_Witness ==
    /\ fe = "http"
    /\ pc = "done"
    /\ args.file # NoFile
    /\ PdfExtracted
    /\ raw_text = <<"\n">>
    /\ result.code = 400
    /\ apiCalls = <<>>

NoKey == args.api_key \in {None, <<>>}

NoSource == args.file = NoFile /\ args.paper_url \in {None, <<>>}

EmptyUpload == args.file # NoFile /\ args.file.data = EmptyBytes

\* C2: POST /review answers 400 when api_key is omitted or empty, when neither
\* file nor paper_url is set, and when the uploaded file holds no bytes,
\* whatever the other fields; then no URL is fetched, no PDF is parsed and the
\* model is not called, and without an api_key the upload is not even read.
C2_BadFormsGet400 ==
    (fe = "http" /\ (NoKey \/ NoSource \/ EmptyUpload)) =>
        /\ pc \in {"read", "done"}
        /\ pc = "done" => result.code = 400
        /\ messages = <<>>
        /\ apiCalls = <<>>
        /\ \A i \in DOMAIN readers : readers[i].op = "upload"
        /\ (NoKey \/ NoSource) => (pc = "done" /\ readers = <<>>)

C2_Witness ==
    /\ fe = "http"
    /\ pc = "done"
    /\ EmptyUpload
    /\ ~NoKey
    /\ args.paper_url = UrlPlain
    /\ Len(readers) = 1
    /\ result.code = 400

\* urlparse(url).path: what is left of the URL without scheme, host, query
\* and fragment.
CutAt(s, c) == IF Find(s, c) = 0 THEN s ELSE SubSeq(s, 1, Find(s, c) - 1)

UrlPath(url) ==
    LET u == UrlClean(url)
        rest == IF UrlHasScheme(url) THEN SubSeq(u, Find(u, ":") + 1, Len(u)) ELSE u
        ends == {j \in 3..Len(rest) : rest[j] \in {"/", "?", "#"}}
        from == IF ends = {} THEN Len(rest) + 1
                ELSE CHOOSE j \in ends : \A k \in ends : j <= k
        tail == IF StartsWith(rest, <<"/", "/">>) THEN SubSeq(rest, from, Len(rest)) ELSE rest
    IN  CutAt(CutAt(tail, "#"), "?")

PdfSignal(e) ==
    \/ Contains(Lower(OrElse(e.input.content_type, <<>>)), PdfWord)
    \/ EndsWith(Lower(UrlPath(e.arg)), DotPdf)

\* C3: a fetched URL whose content-type contains "pdf" or whose path ends in
\* ".pdf" (a query string or fragment after the path does not matter) is read
\* by the PDF Extractor; with neither signal the body is returned as text.
C3_UrlPdfBySignal ==
    \A i \in DOMAIN readers :
        (readers[i].op = "url" /\ readers[i].ok) =>
            IF PdfSignal(readers[i])
            THEN i < Len(readers) /\ readers[i + 1].op = "pdf_bytes"
            ELSE i = Len(readers) /\ readers[i].ret = DecodeReplace(readers[i].input.body)

TopReaders == {"stdin", "url", "pdf_file", "text_file"}

\* read_paper has been called and has returned or raised.
ReadPaperDone ==
    \/ fe = "cli" /\ pc \in {"call", "write", "done"}
    \/ fe = "http" /\ args.file = NoFile /\ ~NoKey /\ ~NoSource /\ pc \in {"call", "done"}

ReadPaperSource == IF fe = "cli" THEN args.paper ELSE args.paper_url

ModelAnswered(resp) == resp.ok /\ resp.choices # <<>>

OutputGiven == Truthy(args.output)

C8_AtMostOneCallNoRetry ==
    (Running /\ apiCalls # <<>>) =>
        /\ Len(apiCalls) = 1
        /\ readers # <<>>
        /\ Len(messages) = 2
        /\ apiCalls[1].messages = messages
        /\ pc \in {"write", "done"}
        /\ ~apiCalls[1].resp.ok =>
               /\ pc = "done"
               /\ review = None
               /\ fe = "cli" => result.code # 0
               /\ fe = "http" =>
                      (result.code = 500 /\ result.review_text = None /\ result.meta = NoMeta)
        /\ (ModelAnswered(apiCalls[1].resp) /\ apiCalls[1].resp.choices[1] \in {None, <<>>}) =>
               /\ review = <<>>
               /\ fe = "http" => (result.code = 200 /\ result.review_text = <<>>)

C8_Witness ==
    /\ fe = "http"
    /\ pc = "done"
    /\ Len(apiCalls) = 1
    /\ apiCalls[1].resp.choices = <<None>>
    /\ review = <<>>
    /\ result.code = 200

\* C9: with both a file and a paper_url, only the upload is read and
\* meta.paper_source is its filename, or "uploaded-file" for an empty filename;
\* paper_url is read and reported only without a file; meta.text_chars is the
\* length of the trimmed text the prompt was built from.
C9_UploadPrecedence ==
    fe = "http" =>
        /\ args.file # NoFile =>
               \A i \in DOMAIN readers :
                   readers[i].op \in {"upload", "pdf_bytes"} /\ readers[i].input = args.file
        /\ (pc = "done" /\ result.code = 200) =>
               /\ args.file # NoFile =>
                      result.meta.paper_source =
                          IF args.file.filename \in {None, <<>>}
                          THEN <<"uploaded-file">> ELSE args.file.filename
               /\ args.file = NoFile =>
                      /\ result.meta.paper_source = args.paper_url
                      /\ readers[1].op \in TopReaders
                      /\ readers[1].arg = args.paper_url
               /\ result.meta.text_chars = Len(paper_text)
               /\ EndsWith(apiCalls[1].messages[2].content, paper_text)
               /\ paper_text[1] \notin Whitespace
               /\ paper_text[Len(paper_text)] \notin Whitespace

C9_Witness ==
    /\ fe = "http"
    /\ pc = "done"
    /\ result.code = 200
    /\ args.file # NoFile
    /\ args.file.filename = <<>>
    /\ args.paper_url = UrlPlain
    /\ result.meta.paper_source = <<"uploaded-file">>
    /\ result.meta.text_chars = 1
    /\ raw_text = <<" ", "a", "\n">>

\* C10: a request with a paper_url and no file gets its text only by an HTTP
\* or HTTPS fetch: the server reads neither its standard input nor a local
\* file for any paper_url.
C10_UrlOnlyFetched ==
    fe = "http" =>
        \A i \in DOMAIN readers : readers[i].op \notin {"stdin", "pdf_file", "text_file"}

(***************************************************************************)
(* build_messages on its own: every input of BuilderInputs, and the prompt *)
(* built from it                                                           *)
(***************************************************************************)
LangZhCN == <<"z","h","-","C","N">>

LangZhTW == <<"z","h","_","T","W">>

LangUpperZH == <<"Z","H">>

LangMixedZh == <<"Z","h","-","c","n">>

LangEnUS == <<"e","n","-","U","S">>

LangFr == <<"f","r">>

LangXZh == <<"x","z","h">>

Languages == {Zh, LangZhCN, LangZhTW, LangUpperZH, LangMixedZh, En, LangEnUS, <<>>, LangFr,
              <<"z">>, LangXZh}

Domains == {CV, ML, <<"N","L","P">>, <<"B","i","o">>, <<>>}

Tones == {DefaultTone, <<"k","i","n","d">>}

Papers == {<<>>, <<"a">>, <<" ", "a", "\n">>, DomainField, <<"a">> \o PaperField \o <<"b">>,
           <<"P","a","p","e","r"," ","b","o","d","y"," ","t","e","x","t">>}

BuilderInputs == [domain : Domains, tone : Tones, paper : Papers, language : Languages]

InitBuilder ==
    /\ fe = "builder"
    /\ pc = "args"
    /\ args \in BuilderInputs
    /\ raw_text = None
    /\ paper_text = <<>>
    /\ paper_source = <<>>
    /\ messages = <<>>
    /\ review = None
    /\ readers = <<>>
    /\ apiCalls = <<>>
    /\ result = NoResult
    /\ outfile = None
    /\ stdout = <<>>

Build ==
    /\ fe = "builder"
    /\ pc = "args"
    /\ messages' = build_messages(args.domain, args.tone, args.paper, args.language)
    /\ pc' = "built"
    /\ UNCHANGED <<fe, args, raw_text, paper_text, paper_source, review, readers, apiCalls,
                   result, outfile, stdout>>

BuilderSpec == InitBuilder /\ [][Build]_vars

(***************************************************************************)
(* Properties of the Prompt Builder                                        *)
(***************************************************************************)
Built == fe = "builder" /\ pc = "built"

UsesZhTemplate(msgs) == msgs[2].content[1] = ZhTemplate[1]

UsesEnTemplate(msgs) == msgs[2].content[1] = EnTemplate[1]

\* C5, as amended: the Chinese template is chosen exactly for the languages
\* whose lower-cased form starts with "zh" ("zh", "zh-CN", "zh_TW", and also
\* "ZH" and "Zh-cn"); every other language gets the English template; the
\* Builder gives a prompt for every language and domain, with the domain
\* interpolated verbatim.
C5_TemplateByLowercasedPrefix ==
    Built =>
        /\ UsesZhTemplate(messages) <=> StartsWith(Lower(args.language), Zh)
        /\ UsesEnTemplate(messages) <=> ~StartsWith(Lower(args.language), Zh)
        /\ Contains(messages[2].content, args.domain)

C5_Witness ==
    Built /\ args.language = LangUpperZH /\ UsesZhTemplate(messages)

\* C5 as the claim states it: a language starting with "zh" gets the Chinese
\* template and any other value, "ZH" among them, gets the English one.
C5_Original ==
    Built =>
        /\ StartsWith(args.language, Zh) => UsesZhTemplate(messages)
        /\ ~StartsWith(args.language, Zh) => UsesEnTemplate(messages)

\* C6: the Builder returns exactly two messages, system then user; the user
\* message holds the whole paper text unchanged, placeholder-like text in it
\* included, and the system message holds the domain and the tone verbatim.
C6_TwoMessagesPaperVerbatim ==
    Built =>
        /\ Len(messages) = 2
        /\ messages[1].role = "system"
        /\ messages[2].role = "user"
        /\ EndsWith(messages[2].content, args.paper)
        /\ Len(messages[2].content) =
               Len(EnTemplate) - Len(DomainField) - Len(PaperField)
               + Len(args.domain) + Len(args.paper)
        /\ Contains(messages[1].content, args.domain \o <<".", " ">>)
        /\ Contains(messages[1].content, args.tone \o <<".", " ">>)

C6_Witness ==
    /\ Built
    /\ args.paper = <<"a">> \o PaperField \o <<"b">>
    /\ args.domain = CV
    /\ Contains(messages[2].content, PaperField)

====
